---- MODULE Spec2Model ----
(***************************************************************************)
(* Model of src/main.py: the Nobel-prize scraper (scrape_nobel_prizes,     *)
(* fetch_and_parse_link) and the read API over its in-memory store         *)
(* (get_scraping_status, get_nobel_prizes).                                *)
(*                                                                         *)
(* Python str values are TLA+ strings, read character by character with    *)
(* SubSeq.  Optional[...] values are None / Some(v).                       *)
(***************************************************************************)
EXTENDS Integers, Sequences, FiniteSets, TLC

\* ------------------------------------------------------------------ bounds
\* most links the seed page lists in a scrape
MaxLinks == 2
\* most records of a completed store the query engine is checked on
MaxRecords == 2
\* largest page number a request asks for
MaxPage == 3
\* largest page_size a request asks for (the code admits 1..PageSizeLimit)
MaxPageSize == 2

\* Query(10, ge=1, le=100): the admitted page sizes
PageSizeLimit == 100

\* ------------------------------------------------------------- Optional[T]
None == [some |-> FALSE]
Some(v) == [some |-> TRUE, val |-> v]

\* ------------------------------------------------------------- characters
Ch(s, i) == SubSeq(s, i, i)

DIGITS == <<"0", "1", "2", "3", "4", "5", "6", "7", "8", "9">>
UPPER == <<"A", "B", "C", "D", "E", "F", "G", "H", "I", "J", "K", "L", "M",
           "N", "O", "P", "Q", "R", "S", "T", "U", "V", "W", "X", "Y", "Z">>
LOWER == <<"a", "b", "c", "d", "e", "f", "g", "h", "i", "j", "k", "l", "m",
           "n", "o", "p", "q", "r", "s", "t", "u", "v", "w", "x", "y", "z">>

DigitSet == {DIGITS[i] : i \in 1..10}
UpperSet == {UPPER[i] : i \in 1..26}
LowerSet == {LOWER[i] : i \in 1..26}
DigitValOf == [c \in DigitSet |-> (CHOOSE i \in 1..10 : DIGITS[i] = c) - 1]
LowerOf == [c \in UpperSet |-> LOWER[CHOOSE i \in 1..26 : UPPER[i] = c]]

IsDigit(c) == c \in DigitSet
DigitVal(c) == DigitValOf[c]
IsUpper(c) == c \in UpperSet
IsLower(c) == c \in LowerSet
\* re.IGNORECASE compares characters case-folded
ToLower(c) == IF IsUpper(c) THEN LowerOf[c] ELSE c
\* \w : letters, digits, underscore;  \W is its complement
IsWordChar(c) == IsDigit(c) \/ IsUpper(c) \/ IsLower(c) \/ c = "_"
IsSpace(c) == c \in {" ", "\t", "\n", "\r"}

\* ---------------------------------------------------------------- str ops
RECURSIVE lstrip(_)
lstrip(s) ==
    IF Len(s) > 0 /\ IsSpace(Ch(s, 1)) THEN lstrip(SubSeq(s, 2, Len(s))) ELSE s

RECURSIVE rstrip(_)
rstrip(s) ==
    IF Len(s) > 0 /\ IsSpace(Ch(s, Len(s))) THEN rstrip(SubSeq(s, 1, Len(s) - 1)) ELSE s

\* str.strip()
strip(s) == rstrip(lstrip(s))

\* str.split(sep) for a one-character sep: always at least one piece
RECURSIVE split(_, _)
split(s, sep) ==
    IF \E i \in 1..Len(s) : Ch(s, i) = sep
    THEN LET i == CHOOSE k \in 1..Len(s) :
                      Ch(s, k) = sep /\ \A j \in 1..(k - 1) : Ch(s, j) # sep
         IN  <<SubSeq(s, 1, i - 1)>> \o split(SubSeq(s, i + 1, Len(s)), sep)
    ELSE <<s>>

\* sep.join(parts)
RECURSIVE join(_, _)
join(sep, parts) ==
    IF Len(parts) = 0 THEN ""
    ELSE IF Len(parts) = 1 THEN parts[1]
    ELSE parts[1] \o sep \o join(sep, Tail(parts))

\* int(s): surrounding whitespace is ignored, then a non-empty run of digits
\* is required; anything else (the empty string included) raises ValueError.
\* The year field only ever holds "" or the four digits of (\d{4}).
RECURSIVE DigitsValue(_)
DigitsValue(s) ==
    IF Len(s) = 0 THEN 0
    ELSE 10 * DigitsValue(SubSeq(s, 1, Len(s) - 1)) + DigitVal(Ch(s, Len(s)))

ValueError == [raised |-> TRUE, val |-> 0]
int(s) ==
    LET t == strip(s)
    IN  IF Len(t) > 0 /\ \A i \in 1..Len(t) : IsDigit(Ch(t, i))
        THEN [raised |-> FALSE, val |-> DigitsValue(t)]
        ELSE ValueError

\* re.sub('\W+', ' ', s): every maximal run of non-word characters becomes
\* one space
RECURSIVE sub_W(_)
sub_W(s) ==
    IF Len(s) = 0 THEN ""
    ELSE IF IsWordChar(Ch(s, 1)) THEN Ch(s, 1) \o sub_W(SubSeq(s, 2, Len(s)))
    ELSE LET rest == SubSeq(s, 2, Len(s))
         IN  IF Len(rest) > 0 /\ ~IsWordChar(Ch(rest, 1))
             THEN sub_W(rest)
             ELSE " " \o sub_W(rest)

\* ------------------------------------------------- regular expressions
\* The filter patterns the model sends are literal characters, "." and, from
\* the join of the comma-separated pieces, "|"; besides these, patterns that
\* re.compile rejects: a "(" or ")" that does not pair up raises re.error, a
\* repetition {n} with n >= MAXREPEAT raises OverflowError ("the repetition
\* number is too large").  No pattern of the model holds a paired group or
\* a repetition that compiles, and none holds both kinds of fault.
RECURSIVE Balanced(_, _)
Balanced(p, depth) ==
    IF Len(p) = 0 THEN depth = 0
    ELSE IF Ch(p, 1) = "(" THEN Balanced(SubSeq(p, 2, Len(p)), depth + 1)
    ELSE IF Ch(p, 1) = ")" THEN depth > 0 /\ Balanced(SubSeq(p, 2, Len(p)), depth - 1)
    ELSE Balanced(SubSeq(p, 2, Len(p)), depth)

\* the largest repetition count of the re module, in digits
MAXREPEAT == "4294967295"

RECURSIVE StripZeros(_)
StripZeros(n) ==
    IF Len(n) > 1 /\ Ch(n, 1) = "0" THEN StripZeros(SubSeq(n, 2, Len(n))) ELSE n

\* a >= b for two digit strings of the same length
RECURSIVE SameLengthGE(_, _)
SameLengthGE(a, b) ==
    IF Len(a) = 0 THEN TRUE
    ELSE IF DigitVal(Ch(a, 1)) # DigitVal(Ch(b, 1))
         THEN DigitVal(Ch(a, 1)) > DigitVal(Ch(b, 1))
         ELSE SameLengthGE(SubSeq(a, 2, Len(a)), SubSeq(b, 2, Len(b)))

\* int(a) >= int(b) for two digit strings
DigitsGE(a, b) ==
    LET x == StripZeros(a)
        y == StripZeros(b)
    IN  Len(x) > Len(y) \/ (Len(x) = Len(y) /\ SameLengthGE(x, y))

\* p[i..j] is a repetition {n}
RepeatAt(p, i, j) ==
    /\ i + 1 < j
    /\ Ch(p, i) = "{"
    /\ Ch(p, j) = "}"
    /\ \A k \in (i + 1)..(j - 1) : IsDigit(Ch(p, k))

TooLargeRepeat(p) ==
    \E i, j \in 1..Len(p) :
        RepeatAt(p, i, j) /\ DigitsGE(SubSeq(p, i + 1, j - 1), MAXREPEAT)

\* re.compile(p, re.IGNORECASE): the compiled pattern, or the exception
\* it raises
re_compile(p) ==
    IF TooLargeRepeat(p) THEN [raised |-> "OverflowError", pattern |-> ""]
    ELSE IF ~Balanced(p, 0) THEN [raised |-> "re.error", pattern |-> ""]
    ELSE [raised |-> "", pattern |-> p]

\* does alternative alt match s at offset start (0-based), ignoring case
MatchAt(alt, s, start) ==
    /\ start + Len(alt) <= Len(s)
    /\ \A k \in 1..Len(alt) :
          \/ Ch(alt, k) = "." /\ Ch(s, start + k) # "\n"
          \/ Ch(alt, k) # "." /\ ToLower(Ch(alt, k)) = ToLower(Ch(s, start + k))

\* regex.search(s): some alternative matches somewhere in s (the empty
\* alternative matches every string, the empty one included)
re_search(regex, s) ==
    LET alts == split(regex.pattern, "|")
    IN  \E a \in 1..Len(alts) : \E start \in 0..Len(s) : MatchAt(alts[a], s, start)

\* ---------------------------------------------------------- extract_year
\* re.search(r'\b(\d{4})\b', date_string): the first run of exactly four
\* digits with a word boundary on both sides, as an int; None without one.
YearAt(s, i) ==
    /\ i + 3 <= Len(s)
    /\ \A k \in i..(i + 3) : IsDigit(Ch(s, k))
    /\ (i = 1 \/ ~IsWordChar(Ch(s, i - 1)))
    /\ (i + 3 = Len(s) \/ ~IsWordChar(Ch(s, i + 4)))

extract_year(date_string) ==
    IF \E i \in 1..Len(date_string) : YearAt(date_string, i)
    THEN LET i == CHOOSE k \in 1..Len(date_string) :
                      YearAt(date_string, k)
                      /\ \A j \in 1..(k - 1) : ~YearAt(date_string, j)
         IN  Some(DigitsValue(SubSeq(date_string, i, i + 3)))
    ELSE None

\* ------------------------------------------------------------ the parser
\* A fetched detail page is given by what each pattern of
\* fetch_and_parse_link finds in it:
\*   content         re.findall(content_pattern, page_content): None, or
\*     p               re.findall(p_pattern, content): None, or
\*       name_and_year   re.search(name_and_year_pattern, p): None, or
\*         name            group(1)
\*         category_year   re.search(category_year_pattern, prize): None or
\*                         groups 1..6 ("" for a group that took no part)
\*     born_info       re.findall(born_info_pattern, content): None, or
\*                     re.search(born_date_pattern, born_info): None or
\*                     groups 1..7
\*     motivation      re.search(motivation_pattern, content): None or group(1)
\*   div_image       re.findall(div_image_pattern, page_content): None, or
\*                   the <noscript> match: None, or the src match: None or
\*                   the attribute value
\* A fetch that raised RequestException (retries exhausted) is FetchFailed.
FetchFailed == [ok |-> FALSE]
Fetched(content, div_image) == [ok |-> TRUE, content |-> content, div_image |-> div_image]

\* a laureate page: "Al<br>The Nobel Prize in Ph 1921", "Born: 14 Mar 1879, US"
PagePerson ==
    Fetched(
        Some([p |-> Some([name_and_year |-> Some(
                  [name |-> "Al",
                   category_year |-> Some(<<"Ph", "1921", "", "", "", "">>)])]),
              born_info |-> Some(Some(<<"14 Mar 1879", "US", "", "", "", "", "">>)),
              motivation |-> Some("for \"x\"")]),
        Some(Some(Some(" a.jpg"))))

\* an organisation: "RC<br>The Nobel Pe Prize 1917", "Founded: 1863, CH",
\* no motivation paragraph, an image container without <noscript>
PageOrganisation ==
    Fetched(
        Some([p |-> Some([name_and_year |-> Some(
                  [name |-> "RC",
                   category_year |-> Some(<<"", "", "", "", "Pe", "1917">>)])]),
              born_info |-> Some(Some(<<"", "", "", "1863", "CH", "", "">>)),
              motivation |-> None]),
        Some(None))

\* a page whose first paragraph has no <br>, "Born: 1920", no image container
PageNoSplit ==
    Fetched(
        Some([p |-> Some([name_and_year |-> None]),
              born_info |-> Some(Some(<<"", "", "1920", "", "", "", "">>)),
              motivation |-> Some("x_y")]),
        None)

\* a page without a paragraph, "Born: May 12, SE" (a date that holds no
\* year), no motivation, a <noscript> without src
PageNoYear ==
    Fetched(
        Some([p |-> None,
              born_info |-> Some(Some(<<"May 12", "SE", "", "", "", "", "">>)),
              motivation |-> None]),
        Some(Some(None)))

Pages == {PagePerson, PageOrganisation, PageNoSplit, PageNoYear}
Outcomes == {FetchFailed} \cup Pages

\* Every way the patterns can find or miss their part of a body.  A match
\* of category_year_pattern fills the two groups of one of its three
\* shapes, a match of born_date_pattern the groups of one of its five.
CategoryYearMatches ==
    {None,
     Some(<<"Ph", "1921", "", "", "", "">>),
     Some(<<"", "", "Ec", "1969", "", "">>),
     Some(<<"", "", "", "", "Pe", "1917">>)}

NameAndYearMatches ==
    {None} \cup {Some([name |-> "Al", category_year |-> m]) : m \in CategoryYearMatches}

Paragraphs == {None} \cup {Some([name_and_year |-> m]) : m \in NameAndYearMatches}

BornInfos ==
    {None, Some(None)} \cup
    {Some(Some(g)) : g \in {<<"14 Mar 1879", "US", "", "", "", "", "">>,
                            <<"", "", "1920", "", "", "", "">>,
                            <<"", "", "", "1863", "CH", "", "">>,
                            <<"", "", "", "", "", "1901", "">>,
                            <<"", "", "", "", "", "", " SE">>}}

Motivations == {None, Some("for \"x\"")}

Contents ==
    {None} \cup {Some([p |-> p, born_info |-> b, motivation |-> m]) :
                    p \in Paragraphs, b \in BornInfos, m \in Motivations}

DivImages == {None, Some(None), Some(Some(None)), Some(Some(Some(" a.jpg")))}

\* what the fetch of a link can end in: the exception, or a body
Bodies == {FetchFailed} \cup {Fetched(c, d) : c \in Contents, d \in DivImages}

\* NameCategoryYear leaving the name out when the prize line has none of the
\* three shapes
NameCategoryYear_drops_name(content) ==
    IF content.p.some
    THEN LET match == content.p.val.name_and_year
         IN  IF match.some
             THEN LET m == match.val.category_year
                  IN  IF m.some
                      THEN <<match.val.name>> \o
                           (IF m.val[1] # "" THEN <<m.val[1], m.val[2]>>
                            ELSE IF m.val[3] # "" THEN <<m.val[3], m.val[4]>>
                            ELSE <<m.val[5], m.val[6]>>)
                      ELSE <<"", "", "">>
             ELSE <<"", "", "">>
    ELSE <<"", "", "">>

\* lines 76-104: name, category, year
NameCategoryYear(content) ==
    IF content.p.some
    THEN LET match == content.p.val.name_and_year
         IN  IF match.some
             THEN LET m == match.val.category_year
                  IN  <<match.val.name>> \o
                      (IF m.some
                       THEN IF m.val[1] # "" THEN <<m.val[1], m.val[2]>>
                            ELSE IF m.val[3] # "" THEN <<m.val[3], m.val[4]>>
                            ELSE <<m.val[5], m.val[6]>>
                       ELSE <<"", "">>)
             ELSE <<"", "", "">>
    ELSE <<"", "", "">>

\* lines 106-127: born date, born place
BornInfo(content) ==
    IF content.born_info.some
    THEN LET match == content.born_info.val
         IN  IF match.some
             THEN LET g == match.val
                  IN  IF g[1] # "" THEN <<g[1], g[2]>>
                      ELSE IF g[3] # "" THEN <<g[3], "">>
                      ELSE IF g[4] # "" THEN <<g[4], g[5]>>
                      ELSE IF g[6] # "" THEN <<g[6], "">>
                      ELSE <<"", strip(g[7])>>
             ELSE <<"", "">>
    ELSE <<"", "">>

\* lines 129-135: motivation, special characters removed
Motivation(content) ==
    IF content.motivation.some THEN <<sub_W(strip(content.motivation.val))>> ELSE <<"">>

\* lines 140-153: image
Image(div_image) ==
    IF div_image.some
    THEN LET no_script == div_image.val
         IN  IF no_script.some
             THEN LET src_img == no_script.val
                  IN  IF src_img.some THEN <<strip(src_img.val)>> ELSE <<"">>
             ELSE <<"">>
    ELSE <<"">>

\* fetch_and_parse_link padding a body without content block by five
\* fields instead of six
fetch_and_parse_link_short_padding(link, outcome) ==
    IF ~outcome.ok
    THEN <<link>> \o <<"", "", "", "", "", "", "">>
    ELSE (IF outcome.content.some
          THEN <<link>> \o NameCategoryYear(outcome.content.val)
                        \o BornInfo(outcome.content.val)
                        \o Motivation(outcome.content.val)
          ELSE <<link>> \o <<"", "", "", "", "">>)
         \o Image(outcome.div_image)

\* the row of one link: <<link, name, category, year, born date, born
\* place, motivation, image>>
fetch_and_parse_link(link, outcome) ==
    IF ~outcome.ok
    THEN <<link>> \o <<"", "", "", "", "", "", "">>
    ELSE (IF outcome.content.some
          THEN <<link>> \o NameCategoryYear(outcome.content.val)
                        \o BornInfo(outcome.content.val)
                        \o Motivation(outcome.content.val)
          ELSE <<link>> \o <<"", "", "", "", "", "">>)
         \o Image(outcome.div_image)

\* ------------------------------------------------------------- the state
VARIABLES
    scraping_status,   \* the global ScrapingStatus: status, total_links, processed_links
    nobel_prize_data,  \* the global store, a list of records
    pc,                \* where the scrape_nobel_prizes task stands
    loop,              \* what occupies the event-loop thread: "idle" or "scrape"
    links,             \* the links found on the seed page
    futures,           \* future_to_link: per link, its future's state, what its
                       \* fetch ended in, and the row it returned
    data,              \* the local list of rows, header first
    data_lock,         \* data_lock: "free", or held by the scrape task
    request,           \* the request waiting for or running in its handler
    response           \* what the handler returned for it

vars == <<scraping_status, nobel_prize_data, pc, loop, links, futures, data,
          data_lock, request, response>>

scrape_vars == <<scraping_status, nobel_prize_data, pc, loop, links, futures,
                 data, data_lock>>

\* str(e) of the RequestException of a failed seed fetch
SeedErrors == {"", "timed out"}

ErrorStatus(e) == "Error fetching main page: " \o e

Header == <<"Link", "Name", "Category", "Year", "Born date", "Born country",
            "Motivation", "Image">>

\* lines 200-211: one store record of a row
Record(row) ==
    [name |-> row[2], category |-> row[3], year |-> row[4], born_date |-> row[5],
     born_place |-> row[6], motivation |-> row[7], image |-> row[8]]

\* data[1:] as records
StoreOf(rows) == [i \in 1..(Len(rows) - 1) |-> Record(rows[i + 1])]

NoRequest == [kind |-> "none"]
NoResponse == [kind |-> "none"]

\* ------------------------------------------------------------------- Init
\* module import: lines 44-45; nothing is scheduled yet
Init ==
    /\ scraping_status = [status |-> "Not started", total_links |-> 0, processed_links |-> 0]
    /\ nobel_prize_data = <<>>
    /\ pc = "unscheduled"
    /\ loop = "idle"
    /\ links = <<>>
    /\ futures = <<>>
    /\ data = <<>>
    /\ data_lock = "free"
    /\ request = NoRequest
    /\ response = NoResponse

\* ------------------------------------------------------------- the scrape
\* asyncio.create_task(scrape_nobel_prizes())
startup_event ==
    /\ pc = "unscheduled"
    /\ pc' = "scheduled"
    /\ UNCHANGED <<scraping_status, nobel_prize_data, loop, links, futures, data,
                   data_lock, request, response>>

\* The event loop starts the task.  scrape_nobel_prizes holds no await, so
\* from here to its return the task keeps the event-loop thread.
scrape_start ==
    /\ pc = "scheduled"
    /\ loop = "idle"
    /\ loop' = "scrape"
    /\ pc' = "seed"
    /\ UNCHANGED <<scraping_status, nobel_prize_data, links, futures, data,
                   data_lock, request, response>>

\* scrape_seed_failed without the return of line 171: the task goes on
scrape_seed_failed_no_return(e) ==
    /\ pc = "seed"
    /\ scraping_status' = [scraping_status EXCEPT !.status = ErrorStatus(e)]
    /\ pc' = "dispatch"
    /\ UNCHANGED <<nobel_prize_data, loop, links, futures, data, data_lock, request, response>>

\* lines 165-171: the seed fetch raises RequestException
scrape_seed_failed(e) ==
    /\ pc = "seed"
    /\ scraping_status' = [scraping_status EXCEPT !.status = ErrorStatus(e)]
    /\ pc' = "done"
    /\ loop' = "idle"
    /\ UNCHANGED <<nobel_prize_data, links, futures, data, data_lock, request, response>>

\* lines 173-177: the seed page lists n links (the k-th href is link k)
scrape_discover(n) ==
    /\ pc = "seed"
    /\ links' = [k \in 1..n |-> k]
    /\ scraping_status' = [scraping_status EXCEPT !.total_links = n,
                                                  !.status = "In progress"]
    /\ pc' = "dispatch"
    /\ UNCHANGED <<nobel_prize_data, loop, futures, data, data_lock, request, response>>

\* lines 179-185: the header row, the lock, one future per link
scrape_dispatch ==
    /\ pc = "dispatch"
    /\ data' = <<Header>>
    /\ futures' = [k \in 1..Len(links) |-> [link |-> links[k], state |-> "running", outcome |-> None, row |-> <<>>]]
    /\ pc' = "collect"
    /\ UNCHANGED <<scraping_status, nobel_prize_data, loop, links, data_lock,
                   request, response>>

\* a pool thread runs fetch_and_parse_link for future k; the fetch ends in
\* one of Outcomes
worker(k, outcome) ==
    /\ pc = "collect"
    /\ k \in 1..Len(futures)
    /\ futures[k].state = "running"
    /\ futures' = [futures EXCEPT ![k].state = "finished",
                                  ![k].outcome = Some(outcome),
                                  ![k].row = fetch_and_parse_link(futures[k].link, outcome)]
    /\ UNCHANGED <<scraping_status, nobel_prize_data, pc, loop, links, data,
                   data_lock, request, response>>

\* scrape_collect_append dropping the row of a link whose fetch failed
scrape_collect_append_skips_failed(k) ==
    /\ pc = "collect"
    /\ data_lock = "free"
    /\ k \in 1..Len(futures)
    /\ futures[k].state = "finished"
    /\ data_lock' = "scrape"
    /\ data' = IF futures[k].outcome.val.ok THEN Append(data, futures[k].row) ELSE data
    /\ futures' = [futures EXCEPT ![k].state = "yielded"]
    /\ UNCHANGED <<scraping_status, nobel_prize_data, pc, loop, links, request, response>>

\* scrape_collect_append without `with data_lock`: the row is appended while
\* the lock stays free
scrape_collect_append_unlocked(k) ==
    /\ pc = "collect"
    /\ data_lock = "free"
    /\ k \in 1..Len(futures)
    /\ futures[k].state = "finished"
    /\ data' = Append(data, futures[k].row)
    /\ futures' = [futures EXCEPT ![k].state = "yielded"]
    /\ UNCHANGED <<scraping_status, nobel_prize_data, pc, loop, links, data_lock,
                   request, response>>

\* lines 186-191: as_completed yields a finished future; under the lock its
\* row is appended
scrape_collect_append(k) ==
    /\ pc = "collect"
    /\ data_lock = "free"
    /\ k \in 1..Len(futures)
    /\ futures[k].state = "finished"
    /\ data_lock' = "scrape"
    /\ data' = Append(data, futures[k].row)
    /\ futures' = [futures EXCEPT ![k].state = "yielded"]
    /\ UNCHANGED <<scraping_status, nobel_prize_data, pc, loop, links, request, response>>

\* scrape_collect_count announcing "Completed" as soon as the counter
\* reaches total_links, before the store is built
scrape_collect_count_completes_early ==
    /\ pc = "collect"
    /\ data_lock = "scrape"
    /\ scraping_status' =
          [scraping_status EXCEPT
              !.processed_links = scraping_status.processed_links + 1,
              !.status = IF scraping_status.processed_links + 1
                              = scraping_status.total_links
                         THEN "Completed" ELSE @]
    /\ data_lock' = "free"
    /\ UNCHANGED <<nobel_prize_data, pc, loop, links, futures, data, request, response>>

\* scrape_collect_count with a lock taken by acquire() and never released:
\* the row just appended is counted, and the lock stays held
scrape_collect_count_keeps_lock ==
    /\ pc = "collect"
    /\ data_lock = "scrape"
    /\ scraping_status.processed_links + 2 = Len(data)
    /\ scraping_status' = [scraping_status EXCEPT
                              !.processed_links = scraping_status.processed_links + 1]
    /\ UNCHANGED <<nobel_prize_data, pc, loop, links, futures, data, data_lock,
                   request, response>>

\* line 192: still under the lock, the counter; then the lock is released
scrape_collect_count ==
    /\ pc = "collect"
    /\ data_lock = "scrape"
    /\ scraping_status' = [scraping_status EXCEPT
                              !.processed_links = scraping_status.processed_links + 1]
    /\ data_lock' = "free"
    /\ UNCHANGED <<nobel_prize_data, pc, loop, links, futures, data, request, response>>

\* scrape_build_store reading data[0:]: the header row becomes a record
scrape_build_store_keeps_header ==
    /\ pc = "collect"
    /\ data_lock = "free"
    /\ \A k \in 1..Len(futures) : futures[k].state = "yielded"
    /\ nobel_prize_data' = [i \in 1..Len(data) |-> Record(data[i])]
    /\ pc' = "built"
    /\ UNCHANGED <<scraping_status, loop, links, futures, data, data_lock,
                   request, response>>

\* scrape_build_store taking the rows future by future, in the order of
\* future_to_link (the order of the links on the seed page)
scrape_build_store_in_link_order ==
    /\ pc = "collect"
    /\ data_lock = "free"
    /\ \A k \in 1..Len(futures) : futures[k].state = "yielded"
    /\ nobel_prize_data' = [k \in 1..Len(futures) |-> Record(futures[k].row)]
    /\ pc' = "built"
    /\ UNCHANGED <<scraping_status, loop, links, futures, data, data_lock,
                   request, response>>

\* lines 200-211: every future was yielded, the pool is shut down, the
\* store is built from the rows
scrape_build_store ==
    /\ pc = "collect"
    /\ data_lock = "free"
    /\ \A k \in 1..Len(futures) : futures[k].state = "yielded"
    /\ nobel_prize_data' = StoreOf(data)
    /\ pc' = "built"
    /\ UNCHANGED <<scraping_status, loop, links, futures, data, data_lock,
                   request, response>>

\* scrape_completed scheduling the task anew (a refresh) as it returns
scrape_completed_reschedules ==
    /\ pc = "built"
    /\ scraping_status' = [scraping_status EXCEPT !.status = "Completed"]
    /\ pc' = "scheduled"
    /\ loop' = "idle"
    /\ UNCHANGED <<nobel_prize_data, links, futures, data, data_lock, request, response>>

\* line 213, and the task returns: the event loop is free again
scrape_completed ==
    /\ pc = "built"
    /\ scraping_status' = [scraping_status EXCEPT !.status = "Completed"]
    /\ pc' = "done"
    /\ loop' = "idle"
    /\ UNCHANGED <<nobel_prize_data, links, futures, data, data_lock, request, response>>

\* --------------------------------------------------------- the query engine
Min(a, b) == IF a < b THEN a ELSE b
Max(a, b) == IF a > b THEN a ELSE b

\* seq[start:end] of Python, negative indices counted from the end
PySlice(seq, start, end) ==
    LET n == Len(seq)
        lo == IF start < 0 THEN Max(n + start, 0) ELSE Min(start, n)
        hi == IF end < 0 THEN Max(n + end, 0) ELSE Min(end, n)
    IN  IF lo >= hi THEN <<>> ELSE SubSeq(seq, lo + 1, hi)

\* what a handler hands back
NotReady == [kind |-> "error",
             error |-> "Data scraping is not complete. Please try again later."]
InvalidPattern(which) ==
    [kind |-> "error", error |-> "Invalid regex pattern for " \o which \o " filter"]
\* an exception that leaves the handler
Raised(exc) == [kind |-> "exception", exc |-> exc]
\* a filter stage that went through
Kept(records) == [kind |-> "kept", data |-> records]

\* `if name_filter:` : neither None nor ""
Truthy(opt) == opt.some /\ opt.val # ""

\* try: compile, keep the records whose field the regex finds; except
\* re.error: the error of that filter.  Any other exception leaves the
\* handler.
regex_filter(records, pattern, field, which) ==
    LET regex == re_compile(pattern)
    IN  IF regex.raised = "re.error" THEN InvalidPattern(which)
        ELSE IF regex.raised # "" THEN Raised(regex.raised)
        ELSE Kept(SelectSeq(records, LAMBDA prize : re_search(regex, prize[field])))

\* [x.strip() for x in s.split(',')] joined by '|'
Alternation(s) ==
    LET pieces == split(s, ",")
    IN  join("|", [i \in 1..Len(pieces) |-> strip(pieces[i])])

\* lines 246-252
name_stage(q, records) ==
    IF Truthy(q.name_filter)
    THEN regex_filter(records, q.name_filter.val, "name", "name")
    ELSE Kept(records)

\* lines 254-261
category_stage(q, records) ==
    IF Truthy(q.category_filter)
    THEN regex_filter(records, Alternation(q.category_filter.val), "category", "category")
    ELSE Kept(records)

\* lines 263-270
country_stage(q, records) ==
    IF Truthy(q.country_filter)
    THEN regex_filter(records, Alternation(q.country_filter.val), "born_place", "country")
    ELSE Kept(records)

\* lines 272-278
motivation_stage(q, records) ==
    IF Truthy(q.motivation_filter)
    THEN regex_filter(records, q.motivation_filter.val, "motivation", "motivation")
    ELSE Kept(records)

\* BornInRange asking for a year only where a year was found: a record
\* whose born_date holds no year passes the bounds
BornInRange_keeps_unparsed(prize, q) ==
    /\ prize.born_date # ""
    /\ \/ ~q.birth_year_start.some
       \/ ~extract_year(prize.born_date).some
       \/ extract_year(prize.born_date).val >= q.birth_year_start.val
    /\ \/ ~q.birth_year_end.some
       \/ ~extract_year(prize.born_date).some
       \/ extract_year(prize.born_date).val <= q.birth_year_end.val

\* lines 284-290: the condition of the birth-year comprehension
BornInRange(prize, q) ==
    /\ prize.born_date # ""
    /\ \/ ~q.birth_year_start.some
       \/ /\ extract_year(prize.born_date).some
          /\ extract_year(prize.born_date).val >= q.birth_year_start.val
    /\ \/ ~q.birth_year_end.some
       \/ /\ extract_year(prize.born_date).some
          /\ extract_year(prize.born_date).val <= q.birth_year_end.val

\* lines 280-291
birth_year_stage(q, records) ==
    IF q.birth_year_start.some \/ q.birth_year_end.some
    THEN Kept(SelectSeq(records, LAMBDA prize : BornInRange(prize, q)))
    ELSE Kept(records)

\* lines 297-298: the condition of the prize-year comprehension.  int(...)
\* is evaluated in the first operand when prize_year_start is given, and in
\* the second when the first operand held and prize_year_end is given.
AwardedAfterStart(prize, q) ==
    ~q.prize_year_start.some \/ int(prize.year).val >= q.prize_year_start.val
AwardedInRange(prize, q) ==
    /\ AwardedAfterStart(prize, q)
    /\ (~q.prize_year_end.some \/ int(prize.year).val <= q.prize_year_end.val)
AwardedRaises(prize, q) ==
    \/ q.prize_year_start.some /\ int(prize.year).raised
    \/ /\ ~q.prize_year_start.some
       /\ q.prize_year_end.some
       /\ int(prize.year).raised

\* lines 293-299: a ValueError of int() leaves the comprehension and the
\* handler
prize_year_stage(q, records) ==
    IF q.prize_year_start.some \/ q.prize_year_end.some
    THEN IF \E i \in 1..Len(records) : AwardedRaises(records[i], q)
         THEN Raised("ValueError")
         ELSE Kept(SelectSeq(records, LAMBDA prize : AwardedInRange(prize, q)))
    ELSE Kept(records)

\* lines 244-299: the filters in sequence; the first stage that does not
\* go through ends the handler
filter_stages(q, records) ==
    LET s1 == name_stage(q, records)
    IN  IF s1.kind # "kept" THEN s1 ELSE
    LET s2 == category_stage(q, s1.data)
    IN  IF s2.kind # "kept" THEN s2 ELSE
    LET s3 == country_stage(q, s2.data)
    IN  IF s3.kind # "kept" THEN s3 ELSE
    LET s4 == motivation_stage(q, s3.data)
    IN  IF s4.kind # "kept" THEN s4 ELSE
    LET s5 == birth_year_stage(q, s4.data)
    IN  prize_year_stage(q, s5.data)

\* line 305: page = min(max(1, page), total_pages)
clamp_page(page, total_pages) == Min(Max(1, page), total_pages)

\* page_slice with start_index = page * page_size
page_slice_from_next(filtered_data, page, page_size) ==
    LET start_index == page * page_size
        end_index == start_index + page_size
    IN  PySlice(filtered_data, start_index, end_index)

\* lines 307-310
page_slice(filtered_data, page, page_size) ==
    LET start_index == (page - 1) * page_size
        end_index == start_index + page_size
    IN  PySlice(filtered_data, start_index, end_index)

\* lines 301-324
paginate(filtered_data, requested_page, page_size) ==
    LET total_records == Len(filtered_data)
        total_pages == (total_records + page_size - 1) \div page_size
        page == clamp_page(requested_page, total_pages)
    IN  [kind |-> "ok",
         data |-> page_slice(filtered_data, page, page_size),
         pagination |->
            [total_records |-> total_records,
             current_page |-> page,
             total_pages |-> total_pages,
             next_page |-> IF page < total_pages THEN Some(page + 1) ELSE None,
             prev_page |-> IF page > 1 THEN Some(page - 1) ELSE None]]

\* not_completed testing for "Not started" and "In progress" only
not_completed_misses_error ==
    scraping_status.status \in {"Not started", "In progress"}

\* lines 241-242
not_completed == scraping_status.status # "Completed"

\* GET /nobel-prizes
get_nobel_prizes(q) ==
    IF not_completed THEN NotReady
    ELSE LET filtered == filter_stages(q, nobel_prize_data)
         IN  IF filtered.kind # "kept" THEN filtered
             ELSE paginate(filtered.data, q.page, q.page_size)

\* GET /scraping-status
get_scraping_status == [kind |-> "status", body |-> scraping_status]

\* ------------------------------------------------------------- requests
StatusRequest == [kind |-> "status"]

Query(page, page_size, name, category, country, motivation, born, awarded) ==
    [kind |-> "query", page |-> page, page_size |-> page_size,
     name_filter |-> name, category_filter |-> category,
     country_filter |-> country, motivation_filter |-> motivation,
     birth_year_start |-> born[1], birth_year_end |-> born[2],
     prize_year_start |-> awarded[1], prize_year_end |-> awarded[2]]

NoRange == <<None, None>>

\* the values a request gives each filter: absent, empty, matching some of
\* the records, malformed
NameFilters == {None, Some(""), Some("a"), Some("("), Some("a{4294967296}")}
CategoryFilters == {None, Some("ph, x"), Some("pe,(")}
CountryFilters == {None, Some("u."), Some("c)")}
MotivationFilters == {None, Some("X"), Some("(x")}
BirthRanges == {None, Some(1879)} \X {None, Some(1879)}
PrizeRanges == {None, Some(1921)} \X {None, Some(1921)}

PageSizes == 1..Min(MaxPageSize, PageSizeLimit)

\* how many of the six filters a query gives
Given(q) ==
    LET one(b) == IF b THEN 1 ELSE 0
    IN  one(q.name_filter.some) + one(q.category_filter.some)
        + one(q.country_filter.some) + one(q.motivation_filter.some)
        + one(q.birth_year_start.some \/ q.birth_year_end.some)
        + one(q.prize_year_start.some \/ q.prize_year_end.some)

\* the queries sent: every page with at most one filter, the first page
\* with two filters
Queries ==
    {q \in {Query(page, page_size, n, c, co, m, b, a) :
                page \in 1..MaxPage, page_size \in PageSizes, n \in NameFilters,
                c \in CategoryFilters, co \in CountryFilters,
                m \in MotivationFilters, b \in BirthRanges, a \in PrizeRanges} :
        Given(q) <= 1 \/ (Given(q) = 2 /\ q.page = 1)}

Requests == {StatusRequest} \cup Queries

\* the requests sent while the scrape is observed
FewRequests ==
    {StatusRequest,
     Query(1, 1, None, None, None, None, NoRange, NoRange),
     Query(1, 1, Some("("), None, None, None, NoRange, NoRange),
     Query(1, 1, Some(""), None, None, None, NoRange, NoRange),
     Query(1, 1, None, None, None, None, NoRange, <<Some(1921), None>>)}

\* ------------------------------------------------------------- the handlers
\* lines 219-220, 228-240: a request reaches the server and waits for the
\* event loop to run its handler
request_arrives(q) ==
    /\ request = NoRequest
    /\ request' = q
    /\ response' = NoResponse
    /\ UNCHANGED scrape_vars

\* lines 219-221: the handler runs on the event loop
serve_scraping_status ==
    /\ request.kind = "status"
    /\ response = NoResponse
    /\ loop = "idle"
    /\ response' = get_scraping_status
    /\ UNCHANGED <<scrape_vars, request>>

\* lines 228-324: the handler runs on the event loop
serve_nobel_prizes ==
    /\ request.kind = "query"
    /\ response = NoResponse
    /\ loop = "idle"
    /\ response' = get_nobel_prizes(request)
    /\ UNCHANGED <<scrape_vars, request>>

\* the handler has returned and its result has gone to the client
response_sent ==
    /\ response # NoResponse
    /\ request' = NoRequest
    /\ response' = NoResponse
    /\ UNCHANGED scrape_vars

\* ------------------------------------------------------- specifications
Next ==
    \/ startup_event
    \/ scrape_start
    \/ \E e \in SeedErrors : scrape_seed_failed(e)
    \/ \E n \in 0..MaxLinks : scrape_discover(n)
    \/ scrape_dispatch
    \/ \E k \in 1..MaxLinks : \E outcome \in Outcomes : worker(k, outcome)
    \/ \E k \in 1..MaxLinks : scrape_collect_append(k)
    \/ scrape_collect_count
    \/ scrape_build_store
    \/ scrape_completed
    \/ \E q \in FewRequests : request_arrives(q)
    \/ serve_scraping_status
    \/ serve_nobel_prizes
    \/ response_sent

Spec == Init /\ [][Next]_vars

\* The steps of the scrape task, which the event loop runs once it is
\* scheduled, and the fetch of each pool thread, which returns (a page, an
\* error or a timeout after the last retry).
ScrapeStep ==
    \/ scrape_start
    \/ \E e \in SeedErrors : scrape_seed_failed(e)
    \/ \E n \in 0..MaxLinks : scrape_discover(n)
    \/ scrape_dispatch
    \/ \E k \in 1..MaxLinks : scrape_collect_append(k)
    \/ scrape_collect_count
    \/ scrape_build_store
    \/ scrape_completed

Fairness ==
    /\ WF_vars(ScrapeStep)
    /\ \A k \in 1..MaxLinks : WF_vars(\E outcome \in Outcomes : worker(k, outcome))

SpecLive == Init /\ [][Next]_vars /\ Fairness

\* The parser on every body: the scrape of a seed page that lists one link,
\* whose fetch ends in any of Bodies.
NextParse ==
    \/ startup_event
    \/ scrape_start
    \/ scrape_discover(1)
    \/ scrape_dispatch
    \/ \E body \in Bodies : worker(1, body)
    \/ scrape_collect_append(1)
    \/ scrape_collect_count
    \/ scrape_build_store
    \/ scrape_completed

SpecParse == Init /\ [][NextParse]_vars

\* The query engine on its own: the process after a scrape of n links that
\* reached Completed, every link's fetch having ended in one of Outcomes.
InitQuery ==
    \E n \in 0..MaxRecords : \E outs \in [1..n -> Outcomes] :
        LET rows == [k \in 1..n |-> fetch_and_parse_link(k, outs[k])]
        IN  /\ scraping_status = [status |-> "Completed", total_links |-> n,
                                  processed_links |-> n]
            /\ nobel_prize_data = StoreOf(<<Header>> \o rows)
            /\ pc = "done"
            /\ loop = "idle"
            /\ links = [k \in 1..n |-> k]
            /\ futures = [k \in 1..n |-> [link |-> k, state |-> "yielded", outcome |-> Some(outs[k]),
                                           row |-> rows[k]]]
            /\ data = <<Header>> \o rows
            /\ data_lock = "free"
            /\ request = NoRequest
            /\ response = NoResponse

NextQuery ==
    \/ \E q \in Requests : request_arrives(q)
    \/ serve_scraping_status
    \/ serve_nobel_prizes
    \/ response_sent

SpecQuery == InitQuery /\ [][NextQuery]_vars

\* ------------------------------------------------------------ properties
\* the status texts of a failed seed fetch
IsError == \E e \in SeedErrors : scraping_status.status = ErrorStatus(e)

\* a query has been answered and the answer is still at hand
Answered == request.kind = "query" /\ response # NoResponse

EmptyRecord ==
    [name |-> "", category |-> "", year |-> "", born_date |-> "",
     born_place |-> "", motivation |-> "", image |-> ""]

\* the record each page of Pages stands for
ExpectedRecord(page) ==
    IF page = PagePerson
    THEN [name |-> "Al", category |-> "Ph", year |-> "1921",
          born_date |-> "14 Mar 1879", born_place |-> "US",
          motivation |-> "for x ", image |-> "a.jpg"]
    ELSE IF page = PageOrganisation
    THEN [name |-> "RC", category |-> "Pe", year |-> "1917", born_date |-> "1863",
          born_place |-> "CH", motivation |-> "", image |-> ""]
    ELSE IF page = PageNoSplit
    THEN [name |-> "", category |-> "", year |-> "", born_date |-> "1920",
          born_place |-> "", motivation |-> "x_y", image |-> ""]
    ELSE [name |-> "", category |-> "", year |-> "", born_date |-> "May 12",
          born_place |-> "SE", motivation |-> "", image |-> ""]

\* C1: in every state whose status is not "Completed", a query, whatever
\* its filters, page and page size, is answered with the not-ready error
\* and with no record.
C1_NotReadyUntilCompleted ==
    scraping_status.status # "Completed" =>
        /\ \A q \in Queries : get_nobel_prizes(q) = NotReady
        /\ Answered => response = NotReady

\* a query answered with the not-ready error after the seed fetch failed
C1_Witness ==
    IsError /\ Answered /\ response = NotReady

C2_State ==
    IsError =>
        /\ scraping_status.status # ""
        /\ pc = "done"
        /\ futures = <<>>
        /\ links = <<>>
        /\ nobel_prize_data = <<>>
        /\ scraping_status.total_links = 0
        /\ scraping_status.processed_links = 0
        /\ \A q \in Queries : get_nobel_prizes(q) = NotReady
        /\ Answered => response = NotReady

\* C2: a failed seed fetch leaves an error status with a non-empty text, no
\* future, an empty store and both counters 0; the status never changes
\* again and every query is answered with the not-ready error.
C2_SeedFailureIsTerminal ==
    /\ [](C2_State)
    /\ [][(pc = "seed" /\ pc' = "done") => IsError']_vars
    /\ [][IsError => /\ scraping_status' = scraping_status
                     /\ nobel_prize_data' = nobel_prize_data]_vars

\* a query answered after the seed fetch failed with an empty error text
C2_Witness ==
    /\ scraping_status.status = ErrorStatus("")
    /\ Answered
    /\ response = NotReady

\* where the store holds the record of future k
PositionsOf(k) ==
    {i \in 1..Len(nobel_prize_data) : data[i + 1][1] = futures[k].link}

\* C3: once the scrape has ended without a seed failure the status is
\* "Completed"; the store then holds exactly one record per link, all seven
\* fields empty for a link whose fetch failed and the parsed fields for
\* every other link.
C3_FailedLinksGiveEmptyRecords ==
    /\ (pc = "done" /\ ~IsError) => scraping_status.status = "Completed"
    /\ scraping_status.status = "Completed" =>
          /\ Len(nobel_prize_data) = Len(futures)
          /\ \A k \in 1..Len(futures) :
                /\ Cardinality(PositionsOf(k)) = 1
                /\ \A i \in PositionsOf(k) :
                      nobel_prize_data[i] =
                          IF futures[k].outcome.val.ok
                          THEN ExpectedRecord(futures[k].outcome.val)
                          ELSE EmptyRecord

\* a completed scrape in which one link failed and another was parsed
C3_Witness ==
    /\ scraping_status.status = "Completed"
    /\ \E j, k \in 1..Len(futures) :
          /\ ~futures[j].outcome.val.ok
          /\ futures[k].outcome.val = PagePerson
          /\ \E i \in PositionsOf(j) : nobel_prize_data[i] = EmptyRecord
          /\ \E i \in PositionsOf(k) : nobel_prize_data[i].name = "Al"

\* C4: the scrape does not block the serving of requests: a request that
\* waits while the status is "In progress" and links are still unprocessed
\* can be served then, before the scrape ends.
C4_ServedDuringScrape ==
    (/\ scraping_status.status = "In progress"
     /\ scraping_status.processed_links < scraping_status.total_links
     /\ request # NoRequest
     /\ response = NoResponse)
        => ENABLED (serve_scraping_status \/ serve_nobel_prizes)

\* C5: the reported current_page lies in 1..total_pages when there is a
\* page, and is 1 when there are no results.
C5_CurrentPageInRange ==
    (Answered /\ response.kind = "ok") =>
        LET p == response.pagination
        IN  /\ p.total_pages >= 1 => p.current_page \in 1..p.total_pages
            /\ p.total_records = 0 => p.current_page = 1

\* C6: total_pages is ceil(total_records / page_size); next_page is null
\* exactly when the page is total_pages or there is no record; prev_page is
\* null exactly when the page is 1.
C6_PaginationFields ==
    (Answered /\ response.kind = "ok") =>
        LET p == response.pagination
        IN  /\ p.total_pages * request.page_size >= p.total_records
            /\ (p.total_pages - 1) * request.page_size < p.total_records
            /\ (p.next_page = None) <=>
                   (p.current_page = p.total_pages \/ p.total_records = 0)
            /\ (p.prev_page = None) <=> (p.current_page = 1)

RECURSIVE Concat(_)
Concat(seqs) == IF Len(seqs) = 0 THEN <<>> ELSE Head(seqs) \o Concat(Tail(seqs))

\* the records of the store that pass the filters of q, in store order
Filtered(q) == filter_stages(q, nobel_prize_data).data

\* C7: an answered page holds at most page_size records, and the pages
\* 1..total_pages of the same query, one after the other, are the filtered
\* records: each once, in store order.
C7_PagesPartitionTheResult ==
    (Answered /\ response.kind = "ok") =>
        /\ Len(response.data) \in 0..request.page_size
        /\ response.pagination.total_records = Len(Filtered(request))
        /\ Concat([p \in 1..response.pagination.total_pages |->
                      get_nobel_prizes([request EXCEPT !.page = p]).data])
               = Filtered(request)

\* the second of two pages has been answered
C7_Witness ==
    /\ Answered
    /\ response.kind = "ok"
    /\ response.pagination.total_pages = 2
    /\ response.pagination.current_page = 2
    /\ request.page_size = 1
    /\ response.data = <<nobel_prize_data[2]>>
    /\ nobel_prize_data[1] # nobel_prize_data[2]

PrizeRangeGiven(q) == q.prize_year_start.some \/ q.prize_year_end.some

\* is the four-digit year text y inside the prize-year range of q
YearInside(y, q) ==
    /\ ~q.prize_year_start.some \/ DigitsValue(y) >= q.prize_year_start.val
    /\ ~q.prize_year_end.some \/ DigitsValue(y) <= q.prize_year_end.val

\* C8: on a completed store a query that gives only a prize-year range is
\* answered normally, never by a crash: the records without a year are left
\* out and the others are those whose year is inside the range.
C8_EmptyYearIsSkipped ==
    (Answered /\ PrizeRangeGiven(request) /\ Given(request) = 1) =>
        /\ response.kind # "exception"
        /\ response.kind = "ok" =>
              response.pagination.total_records =
                  Cardinality({i \in 1..Len(nobel_prize_data) :
                                  /\ nobel_prize_data[i].year # ""
                                  /\ YearInside(nobel_prize_data[i].year, request)})

FilterNames == {"name", "category", "country", "motivation", "birth", "prize"}

Gives(q, f) ==
    CASE f = "name" -> q.name_filter.some
      [] f = "category" -> q.category_filter.some
      [] f = "country" -> q.country_filter.some
      [] f = "motivation" -> q.motivation_filter.some
      [] f = "birth" -> q.birth_year_start.some \/ q.birth_year_end.some
      [] f = "prize" -> PrizeRangeGiven(q)

\* q with the filters of fs only, asking for the whole result in one page
Only(q, fs) ==
    [q EXCEPT !.page = 1,
              !.page_size = PageSizeLimit,
              !.name_filter = IF "name" \in fs THEN @ ELSE None,
              !.category_filter = IF "category" \in fs THEN @ ELSE None,
              !.country_filter = IF "country" \in fs THEN @ ELSE None,
              !.motivation_filter = IF "motivation" \in fs THEN @ ELSE None,
              !.birth_year_start = IF "birth" \in fs THEN @ ELSE None,
              !.birth_year_end = IF "birth" \in fs THEN @ ELSE None,
              !.prize_year_start = IF "prize" \in fs THEN @ ELSE None,
              !.prize_year_end = IF "prize" \in fs THEN @ ELSE None]

\* the records a query returns: none unless it is answered normally
Returned(q) ==
    LET r == get_nobel_prizes(q) IN IF r.kind = "ok" THEN r.data ELSE <<>>

HasResult(q) == get_nobel_prizes(q).kind = "ok"

\* C9: a query with two filters A and B returns the records that the query
\* with A alone and the query with B alone both return, in the same order,
\* and has a result whenever both of those have one.
C9_FiltersAreConjunctive ==
    Answered =>
        \A A, B \in FilterNames :
            (A # B /\ Gives(request, A) /\ Gives(request, B)) =>
                LET both == Only(request, {A, B})
                    a == Only(request, {A})
                    b == Only(request, {B})
                IN  /\ (HasResult(a) /\ HasResult(b)) => HasResult(both)
                    /\ Returned(both) =
                           SelectSeq(Returned(a),
                                     LAMBDA r : \E i \in 1..Len(Returned(b)) :
                                                   Returned(b)[i] = r)

\* the patterns of the requests that re.compile rejects
MalformedName == {"(", "a{4294967296}"}
MalformedCategory == "pe,("
MalformedCountry == "c)"
MalformedMotivation == "(x"

\* the first filter of q, in the handler's order, whose pattern is malformed
FirstMalformed(q) ==
    IF q.name_filter.some /\ q.name_filter.val \in MalformedName THEN "name"
    ELSE IF q.category_filter = Some(MalformedCategory) THEN "category"
    ELSE IF q.country_filter = Some(MalformedCountry) THEN "country"
    ELSE IF q.motivation_filter = Some(MalformedMotivation) THEN "motivation"
    ELSE "none"

C10_State ==
    (Answered /\ scraping_status.status = "Completed"
        /\ FirstMalformed(request) # "none") =>
            /\ response.kind = "error"
            /\ response.error =
                  (CASE FirstMalformed(request) = "name" ->
                            "Invalid regex pattern for name filter"
                     [] FirstMalformed(request) = "category" ->
                            "Invalid regex pattern for category filter"
                     [] FirstMalformed(request) = "country" ->
                            "Invalid regex pattern for country filter"
                     [] FirstMalformed(request) = "motivation" ->
                            "Invalid regex pattern for motivation filter")

\* C10: on a completed store a query with a malformed name, category,
\* country or motivation pattern is answered with the invalid-pattern error
\* of that filter, not by a crash and with no record, and serving a query
\* changes neither the store nor the status.
C10_MalformedPatternIsAnError ==
    /\ [](C10_State)
    /\ [][serve_nobel_prizes =>
             /\ nobel_prize_data' = nobel_prize_data
             /\ scraping_status' = scraping_status]_vars

BirthRangeGiven(q) == q.birth_year_start.some \/ q.birth_year_end.some

\* a year is found in the born_date of prize and lies inside every bound q
\* gives, the bound included
BornInside(prize, q) ==
    LET y == extract_year(prize.born_date)
    IN  /\ y.some
        /\ q.birth_year_start.some => y.val >= q.birth_year_start.val
        /\ q.birth_year_end.some => y.val <= q.birth_year_end.val

\* C11: a query that gives birth_year_start, birth_year_end or both returns
\* only records in whose born_date a four-digit year is found that lies
\* inside every given bound, the bound included; with no other filter it
\* returns every such record, so a record with an empty born_date or one
\* without a year is left out also when only one bound is given.
C11_BirthYearRange ==
    (Answered /\ response.kind = "ok" /\ BirthRangeGiven(request)) =>
        /\ \A i \in 1..Len(response.data) : BornInside(response.data[i], request)
        /\ Given(request) = 1 =>
              response.pagination.total_records =
                  Cardinality({i \in 1..Len(nobel_prize_data) :
                                  BornInside(nobel_prize_data[i], request)})

\* only birth_year_end is given; the store holds a record born in that very
\* year and one whose born_date holds no year, and only the first is returned
C11_Witness ==
    /\ Answered
    /\ response.kind = "ok"
    /\ ~request.birth_year_start.some
    /\ request.birth_year_end = Some(1879)
    /\ Given(request) = 1
    /\ \E i, j \in 1..Len(nobel_prize_data) :
          /\ nobel_prize_data[i].born_date = "May 12"
          /\ nobel_prize_data[j].born_date = "14 Mar 1879"
    /\ response.pagination.total_records = 1
    /\ response.data = <<ExpectedRecord(PagePerson)>>

\* the rows accumulated for link
RowsOf(link) == {i \in 2..Len(data) : data[i][1] = link}

Accumulated == IF Len(data) = 0 THEN 0 ELSE Len(data) - 1

C13_State ==
    /\ data_lock \in {"free", "scrape"}
    /\ data_lock = "free" => scraping_status.processed_links = Accumulated
    /\ data_lock = "scrape" =>
          /\ pc = "collect"
          /\ scraping_status.processed_links + 1 = Accumulated

\* C13: whenever the lock is free, processed_links is the number of rows
\* accumulated, however the workers' completions interleave; a row is
\* appended only by the step that takes the free lock and the counter moves
\* only in the step that gives it back, so the two go together and the
\* section is never entered while the lock is held; a worker thread
\* touches neither the rows, the counter nor the lock.
C13_AppendAndCountUnderOneLock ==
    /\ [](C13_State)
    /\ [][(Len(data) > 0 /\ data' # data) =>
              (data_lock = "free" /\ data_lock' = "scrape")]_vars
    /\ [][scraping_status'.processed_links # scraping_status.processed_links =>
              (data_lock = "scrape" /\ data_lock' = "free")]_vars
    /\ [][(\E k \in 1..Len(futures) :
              futures[k].state = "running" /\ futures'[k].state = "finished") =>
              (data' = data /\ scraping_status' = scraping_status
                  /\ data_lock' = data_lock)]_vars

\* one row appended and counted, the lock free again, while another task
\* has completed and waits to be collected
C13_Witness ==
    /\ pc = "collect"
    /\ data_lock = "free"
    /\ scraping_status.processed_links = 1
    /\ Len(data) = 2
    /\ \E k \in 1..Len(futures) : futures[k].state = "finished"

C14_State ==
    scraping_status.status = "Completed" =>
        /\ pc = "done"
        /\ \A k \in 1..Len(futures) : futures[k].state = "yielded"
        /\ nobel_prize_data = StoreOf(data)
        /\ Len(nobel_prize_data) = Len(links)

\* C14: when the status is "Completed" every task has been collected and
\* the store holds the record of every row; from then on no step, of the
\* scrape task or of a handler, changes the store, total_links or
\* processed_links; and a handler changes no state of the scrape at any
\* time.
C14_StoreFrozenOnceCompleted ==
    /\ [](C14_State)
    /\ [][scraping_status.status = "Completed" =>
              /\ nobel_prize_data' = nobel_prize_data
              /\ scraping_status'.total_links = scraping_status.total_links
              /\ scraping_status'.processed_links = scraping_status.processed_links]_vars
    /\ [][(serve_nobel_prizes \/ serve_scraping_status) => UNCHANGED scrape_vars]_vars

\* a query answered with a record from the completed store
C14_Witness ==
    /\ scraping_status.status = "Completed"
    /\ Answered
    /\ response.kind = "ok"
    /\ Len(nobel_prize_data) = 2
    /\ response.data = <<nobel_prize_data[1]>>
    /\ nobel_prize_data = StoreOf(data)

ErrorTexts == {ErrorStatus(e) : e \in SeedErrors}

\* the status changes the claim allows
StatusSteps ==
    {<<"Not started", "In progress">>, <<"In progress", "Completed">>}
        \cup {<<"Not started", t>> : t \in ErrorTexts}

\* how far the scrape task has come
Stage(p) ==
    CASE p = "unscheduled" -> 0
      [] p = "scheduled" -> 1
      [] p = "seed" -> 2
      [] p = "dispatch" -> 3
      [] p = "collect" -> 4
      [] p = "built" -> 5
      [] p = "done" -> 6

\* C15: the status only ever goes from "Not started" to "In progress" and
\* from there to "Completed", or from "Not started" to an error text; it
\* leaves neither "Completed" nor an error text; total_links is written in
\* the step that announces "In progress", when no future exists yet, and
\* never after; the task is scheduled and started at most once and never
\* goes back to an earlier stage.
C15_OneShotStatusMachine ==
    /\ [][scraping_status'.status # scraping_status.status =>
              <<scraping_status.status, scraping_status'.status>> \in StatusSteps]_vars
    /\ [][scraping_status'.total_links # scraping_status.total_links =>
              /\ scraping_status.status = "Not started"
              /\ scraping_status'.status = "In progress"
              /\ futures = <<>>
              /\ futures' = <<>>]_vars
    /\ [][scraping_status.status # "Not started" =>
              scraping_status'.total_links = scraping_status.total_links]_vars
    /\ [][futures' # futures => scraping_status.status = "In progress"]_vars
    /\ [][pc' # pc => Stage(pc') > Stage(pc)]_vars
    /\ [][(pc' = "seed" /\ pc # "seed") => pc = "scheduled"]_vars

\* the scrape went through "In progress" with two links and is completed
C15_Witness ==
    /\ scraping_status.status = "Completed"
    /\ scraping_status.total_links = 2
    /\ pc = "done"
    /\ request = NoRequest

\* C16: with every fetch returning and the task and the pool threads taking
\* their steps, a scheduled scrape ends: in an error status when the seed
\* fetch failed, otherwise in "Completed" with every link's task collected;
\* "In progress" always leads to "Completed", for any number of links, zero
\* included.
C16_ScrapeTerminates ==
    /\ (pc # "unscheduled") ~> (pc = "done")
    /\ (scraping_status.status = "In progress") ~> (scraping_status.status = "Completed")
    /\ [](pc = "done" => (IsError \/ scraping_status.status = "Completed"))
    /\ [](IsError => futures = <<>>)
    /\ [](scraping_status.status = "Completed" =>
              \A k \in 1..Len(futures) : futures[k].state = "yielded")

\* a scrape whose seed page listed no link has ended in "Completed"
C16_Witness ==
    /\ pc = "done"
    /\ scraping_status = [status |-> "Completed", total_links |-> 0,
                          processed_links |-> 0]
    /\ links = <<>>

\* the future whose row is the i-th collected
Collected(i) == CHOOSE k \in 1..Len(futures) : futures[k].link = data[i + 1][1]

C17_State ==
    scraping_status.status = "Completed" =>
        /\ Len(nobel_prize_data) = Len(futures)
        /\ {data[i + 1][1] : i \in 1..Len(nobel_prize_data)}
               = {futures[k].link : k \in 1..Len(futures)}
        /\ \A i \in 1..Len(nobel_prize_data) :
              nobel_prize_data[i] = Record(futures[Collected(i)].row)

\* C17: the completed store is a permutation of the links' records, in the
\* order in which the tasks were collected as they completed: a row is
\* added only at the end, only for a task that has completed and is
\* collected in that step, never for one still running, and the rows
\* already there keep their places; the store follows that order, not the
\* order of the links on the seed page.
C17_StoreInCompletionOrder ==
    /\ [](C17_State)
    /\ [][(Len(data) > 0 /\ data' # data) =>
              \E k \in 1..Len(futures) :
                  /\ futures[k].state = "finished"
                  /\ futures'[k].state = "yielded"
                  /\ data' = Append(data, futures[k].row)]_vars

\* two links, the second collected first: the store begins with the second
\* link's record, which differs from the first link's
C17_Witness ==
    /\ scraping_status.status = "Completed"
    /\ Len(links) = 2
    /\ data[2][1] = links[2]
    /\ data[3][1] = links[1]
    /\ nobel_prize_data[1] = Record(futures[2].row)
    /\ nobel_prize_data[2] = Record(futures[1].row)
    /\ nobel_prize_data[1] # nobel_prize_data[2]

\* the futures whose task has returned
Returned_futures == {k \in 1..Len(futures) : futures[k].state # "running"}

AllEmpty(row, fields) == \A i \in fields : row[i] = ""

\* the row a task returned has eight entries, the link first, and holds ""
\* wherever a stage found nothing
RowIsWhole(f) ==
    LET row == f.row
        o == f.outcome.val
    IN  /\ Len(row) = 8
        /\ row[1] = f.link
        /\ \A i \in 2..8 : row[i] \in STRING
        /\ ~o.ok => AllEmpty(row, 2..8)
        /\ (o.ok /\ ~o.content.some) => AllEmpty(row, 2..7)
        /\ (o.ok /\ o.content.some) =>
              LET c == o.content.val
              IN  /\ ~c.p.some => AllEmpty(row, 2..4)
                  /\ (c.p.some /\ ~c.p.val.name_and_year.some) => AllEmpty(row, 3..4)
                  /\ (c.p.some /\ c.p.val.name_and_year.some
                         /\ ~c.p.val.name_and_year.val.category_year.some) =>
                        AllEmpty(row, 3..4)
                  /\ (~c.born_info.some \/ ~c.born_info.val.some) => AllEmpty(row, 5..6)
                  /\ ~c.motivation.some => row[7] = ""
        /\ (o.ok /\ (~o.div_image.some \/ ~o.div_image.val.some
                        \/ ~o.div_image.val.val.some)) => row[8] = ""

\* C19: whatever the fetch of a link ends in and whichever stages find or
\* miss their part of the body, the task returns a row of eight entries,
\* the link and seven strings, with "" for every field whose stage found
\* nothing; the store built from the rows holds that row's seven fields and
\* the scrape ends in "Completed".
C19_ParserIsTotal ==
    /\ \A k \in Returned_futures : RowIsWhole(futures[k])
    /\ pc \in {"built", "done"} =>
          /\ Len(nobel_prize_data) = Len(futures)
          /\ \A k \in 1..Len(futures) :
                nobel_prize_data[k] =
                    [name |-> futures[k].row[2], category |-> futures[k].row[3],
                     year |-> futures[k].row[4], born_date |-> futures[k].row[5],
                     born_place |-> futures[k].row[6],
                     motivation |-> futures[k].row[7], image |-> futures[k].row[8]]
    /\ pc = "done" => scraping_status.status = "Completed"

\* a body without content block but with an image: the record holds the
\* image alone
C19_Witness ==
    /\ pc = "done"
    /\ futures[1].outcome.val.ok
    /\ ~futures[1].outcome.val.content.some
    /\ nobel_prize_data = <<[EmptyRecord EXCEPT !.image = "a.jpg"]>>

\* the futures whose task has returned a body with a content block
WithContent ==
    {k \in Returned_futures :
        futures[k].outcome.val.ok /\ futures[k].outcome.val.content.some}

\* C20 as stated: with the content block and its first paragraph present
\* and the split into name and prize line failing, the name is filled and
\* category and year are empty; with the paragraph absent all three are
\* empty.
C20_SplitFailureKeepsName ==
    \A k \in WithContent :
        LET p == futures[k].outcome.val.content.val.p
            row == futures[k].row
        IN  /\ (p.some /\ ~p.val.name_and_year.some) =>
                  (row[2] # "" /\ row[3] = "" /\ row[4] = "")
            /\ ~p.some => AllEmpty(row, 2..4)

\* C20, amended: with the paragraph present and split into name and prize
\* line, but the prize line of none of the three shapes, the name is filled
\* and category and year are empty; with the split failing, or the
\* paragraph absent, name, category and year are all empty.
C20_NameCategoryYearDefaults ==
    \A k \in WithContent :
        LET p == futures[k].outcome.val.content.val.p
            row == futures[k].row
        IN  /\ (p.some /\ p.val.name_and_year.some
                   /\ ~p.val.name_and_year.val.category_year.some) =>
                  /\ row[2] = p.val.name_and_year.val.name
                  /\ row[2] # ""
                  /\ row[3] = ""
                  /\ row[4] = ""
            /\ (p.some /\ ~p.val.name_and_year.some) => AllEmpty(row, 2..4)
            /\ ~p.some => AllEmpty(row, 2..4)

\* a paragraph that splits into a name and a prize line of no known shape
C20_Witness ==
    \E k \in WithContent :
        LET p == futures[k].outcome.val.content.val.p
        IN  /\ p.some
            /\ p.val.name_and_year.some
            /\ ~p.val.name_and_year.val.category_year.some
            /\ futures[k].row[2] = "Al"
            /\ futures[k].row[3] = ""
            /\ futures[k].row[4] = ""
====
